---------------------------- MODULE Spec2Model ----------------------------
(***************************************************************************)
(* The options dashboard of toolv0.1.py as a state machine.                *)
(*                                                                         *)
(* A file is a name (its extension), the format of its content and a       *)
(* table of raw rows.  Cells of the text columns Last, Bid, Ask and Expiry *)
(* are sequences of characters (<<>> is an empty cell); Strike is a whole  *)
(* number of dollars.  A missing number (NaN, NaT) is the empty set and a  *)
(* present one the singleton holding it.  Dates are day numbers since      *)
(* 1970-01-01, the clock counts half days since then, and the slider and   *)
(* the intrinsic value count half dollars, so that 0.5 x strike is exact.  *)
(* A mean is kept as the sum and the count it divides.  The charts and the *)
(* Position Details table, which show the filtered rows again and feed     *)
(* nothing back, are not part of the state.                                *)
(***************************************************************************)
EXTENDS Integers, Sequences, FiniteSets, TLC

VARIABLES disk, uploaded_file, cache, now, error, dashboard, df,
          symbols, types, dff, total_exposure, positions_count,
          avg_days_to_expiry, avg_spread, liquidity, selected_label, strike, pc, spot_price, intrinsic_val,
          contract_val, prices, values

vars == <<disk, uploaded_file, cache, now, error, dashboard, df,
          symbols, types, dff, total_exposure, positions_count,
          avg_days_to_expiry, avg_spread, liquidity, selected_label, strike, pc, spot_price, intrinsic_val,
          contract_val, prices, values>>

-----------------------------------------------------------------------------
(* Bounds of the model *)

\* rows of a file
MaxRows == 2
\* half days the clock may advance during a session
MaxTicks == 2

-----------------------------------------------------------------------------
(* Text and numbers *)

DigitVal == ("0" :> 0) @@ ("1" :> 1) @@ ("2" :> 2) @@ ("3" :> 3) @@ ("4" :> 4)
            @@ ("5" :> 5) @@ ("6" :> 6) @@ ("7" :> 7) @@ ("8" :> 8) @@ ("9" :> 9)

DigitChar == <<"0", "1", "2", "3", "4", "5", "6", "7", "8", "9">>

AllDigits(s) == s # <<>> /\ \A i \in 1..Len(s) : s[i] \in DOMAIN DigitVal

RECURSIVE ParseInt(_)
\* int(s) of a string of digits
ParseInt(s) ==
    IF s = <<>> THEN 0
    ELSE ParseInt(SubSeq(s, 1, Len(s) - 1)) * 10 + DigitVal[s[Len(s)]]

RECURSIVE IntToStr(_)
\* str(n) of a natural number
IntToStr(n) ==
    IF n < 10 THEN <<DigitChar[n + 1]>>
    ELSE Append(IntToStr(n \div 10), DigitChar[(n % 10) + 1])

NaN == {}
NaT == {}
Val(x) == CHOOSE v \in x : TRUE
Max0(a) == IF a > 0 THEN a ELSE 0

RECURSIVE SumSeq(_)
SumSeq(s) == IF s = <<>> THEN 0 ELSE s[1] + SumSeq(Tail(s))

-----------------------------------------------------------------------------
(* load_and_process_data, step 1: price cleaning *)

\* Series.astype(str): a missing cell prints as "nan"
AsTypeStr(cell) == IF cell = <<>> THEN <<"n", "a", "n">> ELSE cell

\* Series.str.replace('C', '', regex=False)
StrReplaceC(s) == SelectSeq(s, LAMBDA c : c # "C")

\* pd.to_numeric(errors='coerce'): text that is no number becomes NaN
ToNumeric(s) == IF AllDigits(s) THEN {ParseInt(s)} ELSE NaN

\* Series.fillna(0)
FillNa0(x) == IF x = NaN THEN 0 ELSE Val(x)

\* a cleaning that leaves the 'C' marker in place
CleanPriceKeepC(cell) == FillNa0(ToNumeric(AsTypeStr(cell)))

CleanPrice(cell) == FillNa0(ToNumeric(StrReplaceC(AsTypeStr(cell))))

-----------------------------------------------------------------------------
(* load_and_process_data, step 2: expiry and days to expiry *)

\* astype(int) raises ValueError on text that is no integer
AsTypeIntRaises(cell) == cell # <<>> /\ ~AllDigits(cell)

\* df['Expiry'].fillna(0).astype(int).astype(str)
ExpiryStr(cell) == IntToStr(IF cell = <<>> THEN 0 ELSE ParseInt(cell))

\* days from 1970-01-01 to the first day of month m of year y
DaysFromCivil(y, m) ==
    LET yy  == IF m <= 2 THEN y - 1 ELSE y
        era == yy \div 400
        yoe == yy - era * 400
        mp  == (m + 9) % 12
        doy == (153 * mp + 2) \div 5
        doe == yoe * 365 + yoe \div 4 - yoe \div 100 + doy
    IN  era * 146097 + doe - 719468

\* pd.to_datetime(format='%Y%m', errors='coerce'): four digits of year and a
\* month of one or two digits, the whole string consumed, within the range
\* of a Timestamp (1677-10 .. 2262-04); anything else is NaT
ToDatetimeYm(s) ==
    LET y == ParseInt(SubSeq(s, 1, 4))
        m == ParseInt(SubSeq(s, 5, Len(s)))
    IN  IF /\ AllDigits(s)
           /\ Len(s) \in {5, 6}
           /\ m \in 1..12
           /\ (Len(s) = 5 => s[5] # "0")
           /\ y * 12 + m >= 1677 * 12 + 10
           /\ y * 12 + m <= 2262 * 12 + 4
        THEN {DaysFromCivil(y, m)}
        ELSE NaT

\* (Expiry_Date - datetime.now()).dt.days: whole days, rounded down
DaysToExpiry(expiry_date, t) ==
    IF expiry_date = NaT THEN NaN ELSE {(2 * Val(expiry_date) - t) \div 2}

-----------------------------------------------------------------------------
(* load_and_process_data, steps 3 and 4: option rows and their derived fields *)

\* lambda x: x['Strike'] if x['P/C'] == 'P' else (x['Strike'] + x['Last'])
KeyLevel(p, k, last) == IF p = "P" THEN k ELSE k + last

\* Series.map({'P': ..., 'C': ...}): a key the dict lacks maps to NaN
LevelType(p) ==
    IF p = "P" THEN "Assignment Price"
    ELSE IF p = "C" THEN "Break-Even Price"
    ELSE "NaN"

PositionValue(last) == last * 100

\* the spread with its operands exchanged
SpreadOfReversed(ask, bid) == bid - ask

SpreadOf(ask, bid) == ask - bid

\* Symbol + " " + str(Strike) + P/C
LabelOf(sym, k, p) == <<sym, k, p>>

\* one row of the returned frame; idx is the row's index label, its place
\* in the file
Derive(raw, i, t) ==
    LET last == CleanPrice(raw.Last)
        bid  == CleanPrice(raw.Bid)
        ask  == CleanPrice(raw.Ask)
        estr == ExpiryStr(raw.Expiry)
        edt  == ToDatetimeYm(estr)
    IN  [idx            |-> i,
         Symbol         |-> raw.Symbol,
         Type           |-> raw.Type,
         PC             |-> raw.PC,
         Strike         |-> raw.Strike,
         Last           |-> last,
         Bid            |-> bid,
         Ask            |-> ask,
         Expiry         |-> raw.Expiry,
         Expiry_Str     |-> estr,
         Expiry_Date    |-> edt,
         Days_To_Expiry |-> DaysToExpiry(edt, t),
         Position_Value |-> PositionValue(last),
         Spread         |-> SpreadOf(ask, bid),
         Key_Level      |-> KeyLevel(raw.PC, raw.Strike, last),
         Level_Type     |-> LevelType(raw.PC),
         Label          |-> LabelOf(raw.Symbol, raw.Strike, raw.PC)]

\* file.name.endswith('.csv') picks pd.read_csv, anything else pd.read_excel;
\* either raises on content of the other format
ReadRaises(file) ==
    IF file.name = "csv" THEN file.content # "csv" ELSE file.content # "xlsx"

\* df[df['Type'] == 'OPT']
OptIndices(rows) == {i \in 1..Len(rows) : rows[i].Type = "OPT"}

RECURSIVE OptRows(_, _, _)
OptRows(rows, i, t) ==
    IF i > Len(rows) THEN <<>>
    ELSE (IF rows[i].Type = "OPT" THEN <<Derive(rows[i], i, t)>> ELSE <<>>)
         \o OptRows(rows, i + 1, t)

\* Whether the try block raises.  apply(axis=1) on a frame without rows
\* returns a frame, and whether assigning it to one column raises depends on
\* the pandas release: emptyRaises is that outcome.
LoadRaises(file, emptyRaises) ==
    \/ ReadRaises(file)
    \/ \E i \in 1..Len(file.rows) : AsTypeIntRaises(file.rows[i].Expiry)
    \/ (OptIndices(file.rows) = {} /\ emptyRaises)

\* load_and_process_data(file) called at time t: st.error and an empty frame
\* when the try block raises, the option rows otherwise
LoadAndProcessData(file, t, emptyRaises) ==
    IF LoadRaises(file, emptyRaises)
    THEN [error |-> TRUE, df |-> <<>>]
    ELSE [error |-> FALSE, df |-> OptRows(file.rows, 1, t)]

-----------------------------------------------------------------------------
(* main: filters, metrics, tables, payoff simulator *)

NoFile == [name |-> "", content |-> "", rows |-> <<>>]
NoEntry == [error |-> FALSE, df |-> <<>>, cached |-> FALSE]
NoLabel == <<>>

\* df['Symbol'].unique()
UniqueSymbols(frame) == {frame[i].Symbol : i \in 1..Len(frame)}

PCOptions == {"P", "C"}

\* a filter that drops the put/call condition
ApplyFilterNoTypes(frame, syms, tys) ==
    SelectSeq(frame, LAMBDA r : r.Symbol \in syms)

\* df[(df['Symbol'].isin(symbols)) & (df['P/C'].isin(types))]
ApplyFilter(frame, syms, tys) ==
    SelectSeq(frame, LAMBDA r : r.Symbol \in syms /\ r.PC \in tys)

\* dff['Position_Value'].sum()
TotalExposure(frame) == SumSeq([i \in 1..Len(frame) |-> frame[i].Position_Value])

\* Series.mean() of a column of numbers that may be missing: the missing
\* ones are skipped, and the mean of none is NaN
Mean(xs) ==
    LET present == SelectSeq(xs, LAMBDA x : x # NaN)
    IN  IF present = <<>> THEN NaN
        ELSE {[sum   |-> SumSeq([i \in 1..Len(present) |-> Val(present[i])]),
               count |-> Len(present)]}

\* dff['Days_To_Expiry'].mean()
AvgDaysToExpiry(frame) ==
    Mean([i \in 1..Len(frame) |-> frame[i].Days_To_Expiry])

\* dff['Spread'].mean()
AvgSpread(frame) == Mean([i \in 1..Len(frame) |-> {frame[i].Spread}])

\* len(dff)
PositionsCount(frame) == Len(frame)

\* the order of an ascending sort
SpreadOrderAscending(a, b) == a.Spread <= b.Spread

\* whether sort_values('Spread', ascending=False) may list row a before row b
SpreadOrder(a, b) == a.Spread >= b.Spread

\* dff[...].sort_values('Spread', ascending=False): the default sort kind is
\* not stable, so every descending arrangement of the rows is an outcome
SortValuesSpread(frame) ==
    LET n == Len(frame)
        perms == {p \in [1..n -> 1..n] : \A i, j \in 1..n : i # j => p[i] # p[j]}
        ok(p) == \A i \in 1..n - 1 : SpreadOrder(frame[p[i]], frame[p[i + 1]])
    IN  {[i \in 1..n |-> frame[p[i]]] : p \in {q \in perms : ok(q)}}

RECURSIVE UniqueLabels(_)
\* dff['Label'].unique(): in order of first appearance
UniqueLabels(frame) ==
    IF frame = <<>> THEN <<>>
    ELSE LET rest == UniqueLabels(SubSeq(frame, 1, Len(frame) - 1))
             l == frame[Len(frame)].Label
         IN  IF \E i \in 1..Len(rest) : rest[i] = l THEN rest ELSE Append(rest, l)

\* dff[dff['Label'] == selected_label].iloc[0]
FirstWithLabel(frame, l) ==
    frame[CHOOSE i \in 1..Len(frame) :
            /\ frame[i].Label = l
            /\ \A j \in 1..i - 1 : frame[j].Label # l]

\* the two payoffs exchanged
IntrinsicValueSwapped(p, k, spot) ==
    IF p = "C" THEN Max0(k - spot) ELSE Max0(spot - k)

\* max(0, spot_price - strike) for a call, max(0, strike - spot_price) otherwise
IntrinsicValue(p, k, spot) == IF p = "C" THEN Max0(spot - k) ELSE Max0(k - spot)

ContractValue(intrinsic) == intrinsic * 100

\* the slider's min_price, max_price and default, in half dollars
MinPrice(k) == k
MaxPrice(k) == 3 * k
DefaultPrice(k) == 2 * k

\* list(range(int(min_price), int(max_price))), in dollars
PayoffPrices(k) ==
    LET lo == MinPrice(k) \div 2
        hi == MaxPrice(k) \div 2
    IN  [i \in 1..(IF hi > lo THEN hi - lo ELSE 0) |-> lo + i - 1]

\* [max(0, p - strike) if pc == 'C' else max(0, strike - p) for p in prices]
PayoffValues(p, k, ps) == [i \in 1..Len(ps) |-> IntrinsicValue(p, k, ps[i])]

-----------------------------------------------------------------------------
(* The files a user may hold *)

Raw(sym, ty, p, k, last, bid, ask, expiry) ==
    [Symbol |-> sym, Type |-> ty, PC |-> p, Strike |-> k,
     Last |-> last, Bid |-> bid, Ask |-> ask, Expiry |-> expiry]

\* The rows files are cut from: clean and marked prices, missing and
\* non-numeric cells, equal spreads, an expiry with month 13, a missing one
\* and one that is text, a P/C flag that is neither P nor C, a stock row,
\* two rows of one label.
Portfolio ==
    << Raw("ABC", "OPT", "C", 3, <<"2">>, <<"6">>, <<"9">>, IntToStr(202503)),
       Raw("ABC", "OPT", "P", 2, <<"C", "1">>, <<"1">>, <<"3">>, IntToStr(202513)),
       Raw("XYZ", "OPT", "C", 2, <<"x">>, <<"1">>, <<>>, <<>>),
       Raw("XYZ", "OPT", "P", 3, <<"3">>, <<"2">>, <<"4", "C">>, IntToStr(202502)),
       Raw("XYZ", "OPT", "X", 3, <<"1">>, <<"1">>, <<"9">>, IntToStr(202502)),
       Raw("ABC", "STK", "", 1, <<"5">>, <<"5">>, <<"x", "6">>, <<>>),
       Raw("XYZ", "OPT", "C", 2, <<"1">>, <<"3">>, <<"4">>, <<"2", "x">>),
       Raw("ABC", "OPT", "C", 3, <<"2">>, <<"1">>, <<"3">>, IntToStr(202502)) >>

RECURSIVE Pick(_, _)
\* the rows of Portfolio at the places of set S, in Portfolio's order
Pick(S, i) ==
    IF i > Len(Portfolio) THEN <<>>
    ELSE (IF i \in S THEN <<Portfolio[i]>> ELSE <<>>) \o Pick(S, i + 1)

RowSets ==
    {Pick(S, 1) : S \in {T \in SUBSET (1..Len(Portfolio)) :
                            Cardinality(T) \in 1..MaxRows}}

Names == {"csv", "xlsx", "txt"}
Contents == {"csv", "xlsx"}

\* CSV files of every table, and one-row tables under every name and format
Files ==
    {[name |-> "csv", content |-> "csv", rows |-> r] : r \in RowSets}
    \cup {[name |-> n, content |-> c, rows |-> r] :
            n \in Names, c \in Contents, r \in {q \in RowSets : Len(q) = 1}}

\* What a user has at hand: one file, or two one-row CSV files to switch
\* between.
Disks ==
    {{f} : f \in Files}
    \cup {{f, g} : f, g \in {h \in Files : /\ h.name = "csv"
                                           /\ h.content = "csv"
                                           /\ Len(h.rows) = 1}}

\* 2025-01-20 00:00
StartClock == 2 * (DaysFromCivil(2025, 1) + 19)

-----------------------------------------------------------------------------
(* The session *)

\* the widgets' values as the browser holds them before a run of the script;
\* live: the previous run rendered the dashboard
Widgets ==
    [live |-> dashboard, opts |-> UniqueSymbols(df), symbols |-> symbols,
     types |-> types, labels |-> UniqueLabels(dff),
     selected_label |-> selected_label, strike |-> strike,
     spot_price |-> spot_price]

\* @st.cache_data: the stored return value for an argument seen before,
\* the function's result at the time of the call otherwise
CachedLoad(f, emptyRaises) ==
    IF cache[f].cached THEN [error |-> cache[f].error, df |-> cache[f].df]
    ELSE LoadAndProcessData(f, now, emptyRaises)

\* what the assignment of apply's result may do for file f: it is reached
\* only by a first load that gets as far as an option frame without rows
EmptyApplyOutcomes(f) ==
    IF ~cache[f].cached /\ ~LoadRaises(f, FALSE) /\ OptIndices(f.rows) = {}
    THEN BOOLEAN ELSE {FALSE}

Blank ==
    /\ symbols' = {} /\ types' = {} /\ dff' = <<>>
    /\ total_exposure' = 0 /\ positions_count' = 0
    /\ avg_days_to_expiry' = NaN /\ avg_spread' = NaN /\ liquidity' = <<>>
    /\ selected_label' = NoLabel /\ strike' = 0 /\ pc' = ""
    /\ spot_price' = 0 /\ intrinsic_val' = 0 /\ contract_val' = 0
    /\ prices' = <<>> /\ values' = <<>>

\* tab3 for position l of frame, or nothing when the selectbox has no option
Simulator(frame, l, w) ==
    IF l = NoLabel
    THEN /\ selected_label' = NoLabel /\ strike' = 0 /\ pc' = ""
         /\ spot_price' = 0 /\ intrinsic_val' = 0 /\ contract_val' = 0
         /\ prices' = <<>> /\ values' = <<>>
    ELSE LET pos == FirstWithLabel(frame, l)
             k   == pos.Strike
             sp  == IF w.live /\ w.selected_label # NoLabel /\ w.strike = k
                    THEN w.spot_price ELSE DefaultPrice(k)
             iv  == IntrinsicValue(pos.PC, 2 * k, sp)
         IN  /\ selected_label' = l /\ strike' = k /\ pc' = pos.PC
             /\ spot_price' = sp
             /\ intrinsic_val' = iv
             /\ contract_val' = ContractValue(iv)
             /\ prices' = PayoffPrices(k)
             /\ values' = PayoffValues(pos.PC, k, PayoffPrices(k))

\* one run of main() with file f in the uploader and widget values w
Script(f, w) ==
    /\ uploaded_file' = f
    /\ UNCHANGED <<disk, now>>
    /\ IF f = NoFile
       THEN /\ error' = FALSE /\ dashboard' = FALSE /\ df' = <<>>
            /\ UNCHANGED cache
            /\ Blank
       ELSE \E emptyRaises \in EmptyApplyOutcomes(f) :
            LET res == CachedLoad(f, emptyRaises)
                sy  == IF w.live /\ w.opts = UniqueSymbols(res.df)
                       THEN w.symbols ELSE UniqueSymbols(res.df)
                ty  == IF w.live THEN w.types ELSE PCOptions
                sel == ApplyFilter(res.df, sy, ty)
                ls  == UniqueLabels(sel)
                l   == IF ls = <<>> THEN NoLabel
                       ELSE IF w.live /\ w.labels = ls
                               /\ w.selected_label # NoLabel
                            THEN w.selected_label ELSE ls[1]
            IN  /\ cache' = [cache EXCEPT ![f] =
                               [error |-> res.error, df |-> res.df,
                                cached |-> TRUE]]
                /\ error' = res.error
                /\ df' = res.df
                /\ dashboard' = (res.df # <<>>)
                /\ IF res.df = <<>>
                   THEN Blank
                   ELSE /\ symbols' = sy
                        /\ types' = ty
                        /\ dff' = sel
                        /\ total_exposure' = TotalExposure(sel)
                        /\ positions_count' = PositionsCount(sel)
                        /\ avg_days_to_expiry' = AvgDaysToExpiry(sel)
                        /\ avg_spread' = AvgSpread(sel)
                        /\ liquidity' \in SortValuesSpread(sel)
                        /\ Simulator(sel, l, w)

Init ==
    /\ disk \in Disks
    /\ uploaded_file = NoFile
    /\ cache = [f \in disk |-> NoEntry]
    /\ now = StartClock
    /\ error = FALSE /\ dashboard = FALSE /\ df = <<>>
    /\ symbols = {} /\ types = {} /\ dff = <<>>
    /\ total_exposure = 0 /\ positions_count = 0
    /\ avg_days_to_expiry = NaN /\ avg_spread = NaN /\ liquidity = <<>>
    /\ selected_label = NoLabel /\ strike = 0 /\ pc = ""
    /\ spot_price = 0 /\ intrinsic_val = 0 /\ contract_val = 0
    /\ prices = <<>> /\ values = <<>>

\* st.sidebar.file_uploader(type=["csv", "xlsx"]): the user hands over a file.
\* The widget's check of the extension is best effort and not a guarantee,
\* and it never looks at the content, so any file may arrive.
Upload(f) ==
    /\ f \in disk
    /\ f # uploaded_file
    /\ Script(f, Widgets)

\* the user clears the uploader
Remove ==
    /\ uploaded_file # NoFile
    /\ Script(NoFile, Widgets)

\* st.sidebar.multiselect("Filter by Symbol")
SetSymbols(S) ==
    /\ dashboard
    /\ S \subseteq UniqueSymbols(df)
    /\ S # symbols
    /\ Script(uploaded_file, [Widgets EXCEPT !.symbols = S])

\* st.sidebar.multiselect("Filter by Type")
SetTypes(T) ==
    /\ dashboard
    /\ T \subseteq PCOptions
    /\ T # types
    /\ Script(uploaded_file, [Widgets EXCEPT !.types = T])

\* st.selectbox("Select Position")
SelectPosition(l) ==
    /\ dashboard
    /\ \E i \in 1..Len(dff) : dff[i].Label = l
    /\ l # selected_label
    /\ Script(uploaded_file, [Widgets EXCEPT !.selected_label = l])

\* st.slider("Hypothetical Stock Price at Expiry")
MoveSlider(p) ==
    /\ dashboard
    /\ selected_label # NoLabel
    /\ p \in MinPrice(strike)..MaxPrice(strike)
    /\ p # spot_price
    /\ Script(uploaded_file, [Widgets EXCEPT !.spot_price = p])

\* time passes
Tick ==
    /\ now < StartClock + MaxTicks
    /\ now' = now + 1
    /\ UNCHANGED <<disk, uploaded_file, cache, error, dashboard, df,
                   symbols, types, dff, total_exposure, positions_count,
                   avg_days_to_expiry, avg_spread, liquidity, selected_label, strike, pc, spot_price,
                   intrinsic_val, contract_val, prices, values>>

AllSymbols == {Portfolio[i].Symbol : i \in 1..Len(Portfolio)}
AllLabels ==
    {LabelOf(Portfolio[i].Symbol, Portfolio[i].Strike, Portfolio[i].PC) :
        i \in 1..Len(Portfolio)}
AllStrikes == {Portfolio[i].Strike : i \in 1..Len(Portfolio)}
AllSpots == UNION {MinPrice(k)..MaxPrice(k) : k \in AllStrikes}

Next ==
    \/ \E f \in Files : Upload(f)
    \/ Remove
    \/ \E S \in SUBSET AllSymbols : SetSymbols(S)
    \/ \E T \in SUBSET PCOptions : SetTypes(T)
    \/ \E l \in AllLabels : SelectPosition(l)
    \/ \E p \in AllSpots : MoveSlider(p)
    \/ Tick

Spec == Init /\ [][Next]_vars

-----------------------------------------------------------------------------
(* Properties *)

\* the extensions the uploader is told to accept
SupportedTypes == {"csv", "xlsx"}

\* the raw row behind a row of a frame
RawOf(r) == uploaded_file.rows[r.idx]

\* what a price cell stands for: nothing and text that is no number count 0,
\* digits count their number, with or without 'C' marks among them
PriceMeant(cell) ==
    LET digits == SelectSeq(cell, LAMBDA c : c \in DOMAIN DigitVal)
        marks  == SelectSeq(cell, LAMBDA c : c = "C")
    IN  IF digits # <<>> /\ Len(digits) + Len(marks) = Len(cell)
        THEN ParseInt(digits) ELSE 0

\* a cause of a failed load that is no price cell
FailsWithoutPrices ==
    \/ ReadRaises(uploaded_file)
    \/ \E i \in 1..Len(uploaded_file.rows) :
          AsTypeIntRaises(uploaded_file.rows[i].Expiry)
    \/ OptIndices(uploaded_file.rows) = {}

\* C1: every run of the script (every step that is not the mere passing of
\* time) shows for each row the days from the time of that run to the row's
\* expiry date, and their mean in the Avg Days to Expiry tile.
C1_DaysToExpiryAtInteraction ==
    [][now' = now =>
         /\ \A i \in 1..Len(dff') :
               dff'[i].Days_To_Expiry
                  = DaysToExpiry(dff'[i].Expiry_Date, now')
         /\ avg_days_to_expiry'
               = Mean([i \in 1..Len(dff') |->
                         DaysToExpiry(dff'[i].Expiry_Date, now')])]_vars

C3_ExpiryFailsSoft ==
    (/\ uploaded_file # NoFile
     /\ ~ReadRaises(uploaded_file)
     /\ OptIndices(uploaded_file.rows) # {})
        => /\ ~error
           /\ Len(df) = Cardinality(OptIndices(uploaded_file.rows))
           /\ \A i \in 1..Len(df) :
                 ToDatetimeYm(RawOf(df[i]).Expiry) = NaT
                    => df[i].Expiry_Date = NaT

\* C4: no price cell makes a load fail; every option row of a loaded file
\* carries, for Last, Bid and Ask, 0 for a missing or non-numeric cell and
\* the number for a numeric one ('C' marks dropped), and its derived fields
\* follow from its own cells alone.
C4_PriceCleaningNeverAborts ==
    uploaded_file # NoFile =>
        /\ error => FailsWithoutPrices
        /\ ~error =>
             /\ Len(df) = Cardinality(OptIndices(uploaded_file.rows))
             /\ \A i \in 1..Len(df) :
                   LET r == df[i]
                   IN  /\ RawOf(r).Type = "OPT"
                       /\ r.Last = PriceMeant(RawOf(r).Last)
                       /\ r.Bid = PriceMeant(RawOf(r).Bid)
                       /\ r.Ask = PriceMeant(RawOf(r).Ask)
                       /\ r.Position_Value = PriceMeant(RawOf(r).Last) * 100
                       /\ r.Spread = PriceMeant(RawOf(r).Ask)
                                        - PriceMeant(RawOf(r).Bid)

\* C4 witness: a loaded frame holding a row whose Last is text and no number
\* (cleaned to 0) together with a row whose Last carries a 'C' mark.
C4_Witness ==
    /\ dashboard
    /\ \E i, j \in 1..Len(df) :
          /\ RawOf(df[i]).Last = <<"x">> /\ df[i].Last = 0
          /\ RawOf(df[i]).Ask = <<>> /\ df[i].Ask = 0
          /\ RawOf(df[j]).Last = <<"C", "1">> /\ df[j].Last = 1

\* C5: a put has Key_Level = Strike and type "Assignment Price", a call has
\* Key_Level = Strike + Last and type "Break-Even Price", and no row has the
\* Strike + Last level (told apart from Strike by Last # 0) without the
\* "Break-Even Price" type.
C5_KeyLevelMatchesLevelType ==
    \A i \in 1..Len(df) :
       LET r == df[i]
       IN  /\ r.PC = "P" =>
                (r.Key_Level = r.Strike /\ r.Level_Type = "Assignment Price")
           /\ r.PC = "C" =>
                (r.Key_Level = r.Strike + r.Last
                    /\ r.Level_Type = "Break-Even Price")
           /\ (r.Last # 0 /\ r.Key_Level = r.Strike + r.Last)
                 => r.Level_Type = "Break-Even Price"

\* C6: with a position selected, the intrinsic value is max(0, spot - strike)
\* for a call and max(0, strike - spot) for a put (half dollars), it is never
\* negative, the contract value is 100 times it, and the spec's examples
\* come out: call 100 at 90 -> 0, at 120 -> 20 and 2000; put 100 at 80 -> 20,
\* at 120 -> 0.
C6_PayoffSimulator ==
    /\ selected_label # NoLabel =>
          /\ pc \in {"P", "C"}
          /\ spot_price \in strike..3 * strike
          /\ pc = "C" =>
                intrinsic_val = (IF spot_price > 2 * strike
                                 THEN spot_price - 2 * strike ELSE 0)
          /\ pc = "P" =>
                intrinsic_val = (IF 2 * strike > spot_price
                                 THEN 2 * strike - spot_price ELSE 0)
          /\ intrinsic_val >= 0
          /\ contract_val = 100 * intrinsic_val
    /\ IntrinsicValue("C", 100, 90) = 0
    /\ IntrinsicValue("C", 100, 120) = 20
    /\ ContractValue(IntrinsicValue("C", 100, 120)) = 2000
    /\ IntrinsicValue("P", 100, 80) = 20
    /\ IntrinsicValue("P", 100, 120) = 0

\* C6 witness: the slider moved above the strike of a selected call, which is
\* then worth something.
C6_Witness ==
    /\ selected_label # NoLabel
    /\ pc = "C"
    /\ spot_price > 2 * strike
    /\ intrinsic_val > 0
    /\ contract_val > 0

\* whether row a's Spread_Pct (Spread / Ask x 100) is at least row b's,
\* and whether the two are equal; both rows have Ask > 0
PctAtLeast(a, b) == a.Spread * b.Ask >= b.Spread * a.Ask
PctEqual(a, b) == a.Spread * b.Ask = b.Spread * a.Ask

\* C7: the liquidity-risk listing is sorted descending by Spread_Pct, rows of
\* equal Spread_Pct keep their original order, and it lists no more rows than
\* are eligible.
C7_TopNBySpreadPct ==
    dashboard =>
        /\ Len(liquidity) <= Len(dff)
        /\ \A i, j \in 1..Len(liquidity) :
              (i < j /\ liquidity[i].Ask > 0 /\ liquidity[j].Ask > 0) =>
                 /\ PctAtLeast(liquidity[i], liquidity[j])
                 /\ PctEqual(liquidity[i], liquidity[j])
                       => liquidity[i].idx < liquidity[j].idx

\* C7 as amended: the liquidity-risk listing holds every displayed row once
\* (no cut to a top N), sorted descending by the absolute Spread.
C7_ListingSortedBySpread ==
    dashboard =>
        /\ Len(liquidity) = Len(dff)
        /\ {liquidity[i].idx : i \in 1..Len(liquidity)}
              = {dff[i].idx : i \in 1..Len(dff)}
        /\ \A i \in 1..Len(liquidity) :
              \E j \in 1..Len(dff) : liquidity[i] = dff[j]
        /\ \A i, j \in 1..Len(liquidity) :
              i < j => liquidity[i].Spread >= liquidity[j].Spread

\* C7 witness: a listing of rows with different spreads that the sort has
\* put in another order than the file's.
C7_Witness ==
    /\ dashboard
    /\ Len(liquidity) >= 2
    /\ liquidity[1].idx > liquidity[2].idx
    /\ liquidity[1].Spread > liquidity[2].Spread

C9_PayoffCurveSpansRange ==
    selected_label # NoLabel =>
        /\ Len(values) = Len(prices)
        /\ \A i \in 1..Len(values) - 1 :
              IF pc = "C" THEN values[i] <= values[i + 1]
              ELSE values[i] >= values[i + 1]
        /\ Len(prices) > 0
        /\ 2 * prices[1] = strike
        /\ 2 * prices[Len(prices)] = 3 * strike
        /\ \A i \in 1..Len(prices) :
              strike <= 2 * prices[i] /\ 2 * prices[i] <= 3 * strike

\* the rows of the uploaded file that are options of a selected symbol and
\* a selected type
Matching ==
    {i \in 1..Len(uploaded_file.rows) :
        /\ uploaded_file.rows[i].Type = "OPT"
        /\ uploaded_file.rows[i].Symbol \in symbols
        /\ uploaded_file.rows[i].PC \in types}

\* C10: the displayed rows are exactly the file's option rows of a selected
\* symbol and a selected type, in the file's order, Positions Count is their
\* number and Total Exposure the sum of their Last x 100, and the loaded
\* frame is the one the load returned.
C10_FilterAndAggregate ==
    dashboard =>
        /\ {dff[i].idx : i \in 1..Len(dff)} = Matching
        /\ Len(dff) = Cardinality(Matching)
        /\ \A i \in 1..Len(dff) - 1 : dff[i].idx < dff[i + 1].idx
        /\ \A i \in 1..Len(dff) : \E j \in 1..Len(df) : dff[i] = df[j]
        /\ positions_count = Cardinality(Matching)
        /\ total_exposure =
              SumSeq([i \in 1..Len(uploaded_file.rows) |->
                        IF i \in Matching
                        THEN PriceMeant(uploaded_file.rows[i].Last) * 100
                        ELSE 0])
        /\ symbols \subseteq UniqueSymbols(df)
        /\ types \subseteq PCOptions
        /\ df = cache[uploaded_file].df
        /\ Len(df) = Cardinality(OptIndices(uploaded_file.rows))

\* C10 witness: after a change of the type filter, some but not all loaded
\* rows are displayed and they are worth something.
C10_Witness ==
    /\ dashboard
    /\ types # PCOptions
    /\ dff # <<>>
    /\ Len(dff) < Len(df)
    /\ total_exposure > 0
    /\ positions_count = Len(dff)

=============================================================================
